---- MODULE Spec2Model ----
(***************************************************************************)
(* Model of the hashmap benchmark programs:                                *)
(*   src/src/hashmap_benchmarks.cpp    (generators, histogramSort,         *)
(*                                      BM_HistogramSort)                  *)
(*   src/src/hashmap_random_access.cpp (GenerateRandomData,                *)
(*                                      BM_RandomAccess)                   *)
(* Vectors are TLA+ sequences (1-based); the C++ indices (0-based) are     *)
(* kept in the variables and shifted by one where a vector is accessed.    *)
(* Hash maps are functions from the set of stored keys to their values;    *)
(* a map's iteration order is an arbitrary enumeration of its keys.        *)
(***************************************************************************)
EXTENDS Integers, Sequences, FiniteSets, TLC

\* Largest benchmark argument state.range(0) explored.
MaxSize == 3

\* Largest number of iterations the framework runs a `for (auto _ : state)` loop.
MaxIterations == 5

VARIABLES
    bench,       \* the function under execution
    pc,          \* position inside it
    size,        \* the size argument / state.range(0)
    data,        \* std::vector<int> data
    first,       \* generator loops: number of elements already written
    value,       \* std::iota: the running value
    copy,        \* BM_HistogramSort: std::vector<int> copy (histogramSort's `data&`)
    sorted,      \* histogramSort: Hashmap sorted
    pos,         \* range-for loops over a vector: number of elements consumed
    iterOrder,   \* histogramSort: the keys of `sorted` in the map's iteration order
    it,          \* histogramSort: position of iterator i in iterOrder
    j,           \* histogramSort: int j
    index,       \* histogramSort: int index
    ret,         \* the vector returned by the last histogramSort call
    iterations,  \* completed iterations of the benchmark loop
    map,         \* BM_RandomAccess: Hashmap map
    lookups,     \* BM_RandomAccess: std::vector<int> lookups
    lookup_idx,  \* BM_RandomAccess: size_t lookup_idx
    key,         \* BM_RandomAccess: int key
    found        \* BM_RandomAccess: map.find(key) != map.end()

vars == <<bench, pc, size, data, first, value, copy, sorted, pos, iterOrder,
          it, j, index, ret, iterations, map, lookups, lookup_idx, key, found>>

genVars  == <<first, value>>
histVars == <<copy, sorted, iterOrder, it, j, index, ret>>
raVars   == <<map, lookups, lookup_idx, key, found>>

Benches == {"GenerateAscendingData", "GenerateDescendingData",
            "BM_HistogramSort", "BM_RandomAccess"}

----------------------------------------------------------------------------
\* Vector and map primitives

\* std::vector<int> data(size): size value-initialised (zero) elements.
ZeroVector(n) == [i \in 1..n |-> 0]

\* v[idx] = val for a 0-based idx (an index outside the vector stores nothing
\* into the modelled vector).
StoreAt(v, idx, val) == [v EXCEPT ![idx + 1] = val]

SubscriptInitOne(m, k) == IF k \in DOMAIN m THEN m ELSE m @@ (k :> 1)

\* Hashmap::operator[]: inserts a value-initialised entry when the key is absent.
Subscript(m, k) == IF k \in DOMAIN m THEN m ELSE m @@ (k :> 0)

MapIncrementOnce(m, k) == (k :> 1) @@ m

\* sorted[val]++
MapIncrement(m, k) == [Subscript(m, k) EXCEPT ![k] = @ + 1]

MapAssignDropZero(m, k, v) == IF k = 0 THEN m ELSE [Subscript(m, k) EXCEPT ![k] = v]

\* map[val] = val
MapAssign(m, k, v) == [Subscript(m, k) EXCEPT ![k] = v]

\* map.find(key) != map.end()
MapFind(m, k) == k \in DOMAIN m

\* The enumerations of a finite set without repetition: the orders in which
\* begin()..end() can visit the keys of an unordered map.
IterationOrders(S) ==
    {s \in [1..Cardinality(S) -> S] : \A a, b \in 1..Cardinality(S) : a # b => s[a] # s[b]}

\* std::iter_swap on 0-based positions a and b.
SwapOverwrite(v, a, b) == [v EXCEPT ![a + 1] = v[b + 1]]

Swap(v, a, b) == [v EXCEPT ![a + 1] = v[b + 1], ![b + 1] = v[a + 1]]

----------------------------------------------------------------------------
\* Random number distributions

HistDisMaxWide(n) == n + 1

\* hashmap_benchmarks.cpp: uniform_int_distribution<> dis(0, static_cast<int>(size))
HistDisMax(n) == n

\* hashmap_random_access.cpp: uniform_int_distribution<> dis(0, static_cast<int>(size) * 2)
AccessDisMax(n) == n * 2

\* The upper bound of the distribution used by the running benchmark.
DisMax == IF bench = "BM_RandomAccess" THEN AccessDisMax(size) ELSE HistDisMax(size)

----------------------------------------------------------------------------
Init ==
    /\ bench \in Benches
    /\ size \in 0..MaxSize
    /\ pc = "start"
    /\ data = <<>>
    /\ first = 0
    /\ value = 0
    /\ copy = <<>>
    /\ sorted = <<>>
    /\ pos = 0
    /\ iterOrder = <<>>
    /\ it = 0
    /\ j = 0
    /\ index = 0
    /\ ret = <<>>
    /\ iterations = 0
    /\ map = <<>>
    /\ lookups = <<>>
    /\ lookup_idx = 0
    /\ key = 0
    /\ found = FALSE

----------------------------------------------------------------------------
\* GenerateAscendingData / GenerateDescendingData

\* std::vector<int> data(size); std::iota starts with value 0.
IotaBegin ==
    /\ bench \in {"GenerateAscendingData", "GenerateDescendingData"}
    /\ pc = "start"
    /\ data' = ZeroVector(size)
    /\ first' = 0
    /\ value' = 0
    /\ pc' = "iota"
    /\ UNCHANGED <<bench, size, pos, iterations>>
    /\ UNCHANGED histVars
    /\ UNCHANGED raVars

ReversePositionShifted(n, k) == n - k

\* The 0-based position the reverse iterator rbegin() + k refers to.
ReversePosition(n, k) == n - 1 - k

AscendingStepReversed ==
    /\ bench = "GenerateAscendingData"
    /\ pc = "iota"
    /\ first < Len(data)
    /\ data' = StoreAt(data, ReversePosition(Len(data), first), value)
    /\ first' = first + 1
    /\ value' = value + 1
    /\ UNCHANGED <<bench, pc, size, pos, iterations>>
    /\ UNCHANGED histVars
    /\ UNCHANGED raVars

\* One step of std::iota(data.begin(), data.end(), 0): *first = value; ++first; ++value.
AscendingStep ==
    /\ bench = "GenerateAscendingData"
    /\ pc = "iota"
    /\ first < Len(data)
    /\ data' = StoreAt(data, first, value)
    /\ first' = first + 1
    /\ value' = value + 1
    /\ UNCHANGED <<bench, pc, size, pos, iterations>>
    /\ UNCHANGED histVars
    /\ UNCHANGED raVars

\* One step of std::iota(data.rbegin(), data.rend(), 0).
DescendingStep ==
    /\ bench = "GenerateDescendingData"
    /\ pc = "iota"
    /\ first < Len(data)
    /\ data' = StoreAt(data, ReversePosition(Len(data), first), value)
    /\ first' = first + 1
    /\ value' = value + 1
    /\ UNCHANGED <<bench, pc, size, pos, iterations>>
    /\ UNCHANGED histVars
    /\ UNCHANGED raVars

\* first == last: return data.
IotaReturn ==
    /\ bench \in {"GenerateAscendingData", "GenerateDescendingData"}
    /\ pc = "iota"
    /\ first = Len(data)
    /\ pc' = "returned"
    /\ UNCHANGED <<bench, size, data, pos, iterations>>
    /\ UNCHANGED genVars
    /\ UNCHANGED histVars
    /\ UNCHANGED raVars

----------------------------------------------------------------------------
\* GenerateRandomData (both translation units)

\* std::vector<int> data(size); std::mt19937 gen(42); the distribution is set up.
RandomBegin ==
    /\ bench \in {"BM_HistogramSort", "BM_RandomAccess"}
    /\ pc = "start"
    /\ data' = ZeroVector(size)
    /\ first' = 0
    /\ pc' = "random"
    /\ UNCHANGED <<bench, size, value, pos, iterations>>
    /\ UNCHANGED histVars
    /\ UNCHANGED raVars

\* val = dis(gen): the engine's output is abstracted to any value of the
\* distribution's closed range.
RandomStep ==
    /\ pc = "random"
    /\ first < Len(data)
    /\ \E val \in 0..DisMax : data' = StoreAt(data, first, val)
    /\ first' = first + 1
    /\ UNCHANGED <<bench, pc, size, value, pos, iterations>>
    /\ UNCHANGED histVars
    /\ UNCHANGED raVars

\* return data: control is back in the benchmark function.
RandomReturn ==
    /\ pc = "random"
    /\ first = Len(data)
    /\ pc' = IF bench = "BM_HistogramSort" THEN "hist_loop" ELSE "ra_insert"
    /\ pos' = 0
    /\ UNCHANGED <<bench, size, data, iterations>>
    /\ UNCHANGED genVars
    /\ UNCHANGED histVars
    /\ UNCHANGED raVars

----------------------------------------------------------------------------
\* BM_HistogramSort: the benchmark loop

HistCopyHoisted ==
    /\ bench = "BM_HistogramSort"
    /\ pc = "hist_loop"
    /\ iterations < MaxIterations
    /\ copy' = IF iterations = 0 THEN data ELSE copy
    /\ pc' = "hs_call"
    /\ UNCHANGED <<bench, size, data, pos, iterations>>
    /\ UNCHANGED genVars
    /\ UNCHANGED <<sorted, iterOrder, it, j, index, ret>>
    /\ UNCHANGED raVars

\* The loop runs another iteration: PauseTiming; std::vector<int> copy = data;
\* ResumeTiming.
HistCopy ==
    /\ bench = "BM_HistogramSort"
    /\ pc = "hist_loop"
    /\ iterations < MaxIterations
    /\ copy' = data
    /\ pc' = "hs_call"
    /\ UNCHANGED <<bench, size, data, pos, iterations>>
    /\ UNCHANGED genVars
    /\ UNCHANGED <<sorted, iterOrder, it, j, index, ret>>
    /\ UNCHANGED raVars

\* The end of one iteration's body; the returned vector is discarded (ret and
\* copy keep their last contents until the next iteration replaces them).
HistIterationEnd ==
    /\ bench = "BM_HistogramSort"
    /\ pc = "hs_returned"
    /\ iterations' = iterations + 1
    /\ pc' = "hist_loop"
    /\ UNCHANGED <<bench, size, data, pos>>
    /\ UNCHANGED genVars
    /\ UNCHANGED histVars
    /\ UNCHANGED raVars

\* The framework ends the loop (it runs at least one iteration);
\* state.SetComplexityN(state.range(0)).
HistFinish ==
    /\ bench = "BM_HistogramSort"
    /\ pc = "hist_loop"
    /\ iterations >= 1
    /\ pc' = "finished"
    /\ UNCHANGED <<bench, size, data, pos, iterations>>
    /\ UNCHANGED genVars
    /\ UNCHANGED histVars
    /\ UNCHANGED raVars

----------------------------------------------------------------------------
\* histogramSort<Hashmap>(copy)

\* Hashmap sorted; the range-for over data starts.
HistogramSortEntry ==
    /\ pc = "hs_call"
    /\ sorted' = <<>>
    /\ pos' = 0
    /\ pc' = "hs_count"
    /\ UNCHANGED <<bench, size, data, iterations>>
    /\ UNCHANGED genVars
    /\ UNCHANGED <<copy, iterOrder, it, j, index, ret>>
    /\ UNCHANGED raVars

\* for (int val : data) sorted[val]++;
CountStep ==
    /\ pc = "hs_count"
    /\ pos < Len(copy)
    /\ sorted' = MapIncrement(sorted, copy[pos + 1])
    /\ pos' = pos + 1
    /\ UNCHANGED <<bench, pc, size, data, iterations>>
    /\ UNCHANGED genVars
    /\ UNCHANGED <<copy, iterOrder, it, j, index, ret>>
    /\ UNCHANGED raVars

ReconstructBeginEarly ==
    /\ pc = "hs_count"
    /\ pos >= Len(copy) - 1
    /\ index' = 0
    /\ iterOrder' \in IterationOrders(DOMAIN sorted)
    /\ it' = 0
    /\ pc' = "hs_outer"
    /\ UNCHANGED <<bench, size, data, pos, iterations>>
    /\ UNCHANGED genVars
    /\ UNCHANGED <<copy, sorted, j, ret>>
    /\ UNCHANGED raVars

\* int index = 0; i = sorted.begin(): the map fixes some iteration order.
ReconstructBegin ==
    /\ pc = "hs_count"
    /\ pos = Len(copy)
    /\ index' = 0
    /\ iterOrder' \in IterationOrders(DOMAIN sorted)
    /\ it' = 0
    /\ pc' = "hs_outer"
    /\ UNCHANGED <<bench, size, data, pos, iterations>>
    /\ UNCHANGED genVars
    /\ UNCHANGED <<copy, sorted, j, ret>>
    /\ UNCHANGED raVars

\* i != sorted.end(): int j = 0.
OuterEnter ==
    /\ pc = "hs_outer"
    /\ it < Len(iterOrder)
    /\ j' = 0
    /\ pc' = "hs_inner"
    /\ UNCHANGED <<bench, size, data, pos, iterations>>
    /\ UNCHANGED genVars
    /\ UNCHANGED <<copy, sorted, iterOrder, it, index, ret>>
    /\ UNCHANGED raVars

InnerCondInclusive(jv, second) == jv <= second

\* j < i->second
InnerCond(jv, second) == jv < second

\* data[index++] = i->first; ++j.
InnerWrite ==
    /\ pc = "hs_inner"
    /\ InnerCond(j, sorted[iterOrder[it + 1]])
    /\ copy' = StoreAt(copy, index, iterOrder[it + 1])
    /\ index' = index + 1
    /\ j' = j + 1
    /\ UNCHANGED <<bench, pc, size, data, pos, iterations>>
    /\ UNCHANGED genVars
    /\ UNCHANGED <<sorted, iterOrder, it, ret>>
    /\ UNCHANGED raVars

\* The inner loop ends: i++.
InnerExit ==
    /\ pc = "hs_inner"
    /\ ~InnerCond(j, sorted[iterOrder[it + 1]])
    /\ it' = it + 1
    /\ pc' = "hs_outer"
    /\ UNCHANGED <<bench, size, data, pos, iterations>>
    /\ UNCHANGED genVars
    /\ UNCHANGED <<copy, sorted, iterOrder, j, index, ret>>
    /\ UNCHANGED raVars

\* i == sorted.end(): return data (a copy of the overwritten argument).
HistogramSortReturn ==
    /\ pc = "hs_outer"
    /\ it = Len(iterOrder)
    /\ ret' = copy
    /\ pc' = "hs_returned"
    /\ UNCHANGED <<bench, size, data, pos, iterations>>
    /\ UNCHANGED genVars
    /\ UNCHANGED <<copy, sorted, iterOrder, it, j, index>>
    /\ UNCHANGED raVars

----------------------------------------------------------------------------
\* BM_RandomAccess: setup

\* Hashmap map; map.reserve(size) (no effect on the contents);
\* for (int val : data) map[val] = val;
InsertStep ==
    /\ bench = "BM_RandomAccess"
    /\ pc = "ra_insert"
    /\ pos < Len(data)
    /\ map' = MapAssign(map, data[pos + 1], data[pos + 1])
    /\ pos' = pos + 1
    /\ UNCHANGED <<bench, pc, size, data, iterations>>
    /\ UNCHANGED genVars
    /\ UNCHANGED histVars
    /\ UNCHANGED <<lookups, lookup_idx, key, found>>

\* std::vector<int> lookups = data; std::mt19937 gen(123); std::shuffle begins
\* at the second element.
CopyLookups ==
    /\ bench = "BM_RandomAccess"
    /\ pc = "ra_insert"
    /\ pos = Len(data)
    /\ lookups' = data
    /\ pos' = 1
    /\ pc' = "ra_shuffle"
    /\ UNCHANGED <<bench, size, data, iterations>>
    /\ UNCHANGED genVars
    /\ UNCHANGED histVars
    /\ UNCHANGED <<map, lookup_idx, key, found>>

\* One step of std::shuffle: the element at position pos is swapped with an
\* element at a position drawn from [0, pos].
ShuffleStep ==
    /\ bench = "BM_RandomAccess"
    /\ pc = "ra_shuffle"
    /\ pos < Len(lookups)
    /\ \E r \in 0..pos : lookups' = Swap(lookups, pos, r)
    /\ pos' = pos + 1
    /\ UNCHANGED <<bench, pc, size, data, iterations>>
    /\ UNCHANGED genVars
    /\ UNCHANGED histVars
    /\ UNCHANGED <<map, lookup_idx, key, found>>

\* The shuffle is complete: size_t lookup_idx = 0.
ShuffleDone ==
    /\ bench = "BM_RandomAccess"
    /\ pc = "ra_shuffle"
    /\ pos >= Len(lookups)
    /\ lookup_idx' = 0
    /\ pc' = "ra_loop"
    /\ UNCHANGED <<bench, size, data, pos, iterations>>
    /\ UNCHANGED genVars
    /\ UNCHANGED histVars
    /\ UNCHANGED <<map, lookups, key, found>>

----------------------------------------------------------------------------
\* BM_RandomAccess: the measured loop

\* Values an out-of-range read of a vector<int> may yield.
UnspecifiedInts == -1..(2 * MaxSize + 1)

\* int key = lookups[lookup_idx]; benchmark::DoNotOptimize(map.find(key));
Find ==
    /\ bench = "BM_RandomAccess"
    /\ pc = "ra_loop"
    /\ iterations < MaxIterations
    /\ lookup_idx < Len(lookups)
    /\ key' = lookups[lookup_idx + 1]
    /\ found' = MapFind(map, key')
    /\ pc' = "ra_advance"
    /\ UNCHANGED <<bench, size, data, pos, iterations>>
    /\ UNCHANGED genVars
    /\ UNCHANGED histVars
    /\ UNCHANGED <<map, lookups, lookup_idx>>

\* lookups[lookup_idx] with lookup_idx outside the vector (an empty lookups):
\* undefined behaviour; the read yields some int or the process faults.
FindOutOfRange ==
    /\ bench = "BM_RandomAccess"
    /\ pc = "ra_loop"
    /\ iterations < MaxIterations
    /\ lookup_idx >= Len(lookups)
    /\ \/ /\ key' \in UnspecifiedInts
          /\ found' = MapFind(map, key')
          /\ pc' = "ra_advance"
       \/ /\ pc' = "crashed"
          /\ UNCHANGED <<key, found>>
    /\ UNCHANGED <<bench, size, data, pos, iterations>>
    /\ UNCHANGED genVars
    /\ UNCHANGED histVars
    /\ UNCHANGED <<map, lookups, lookup_idx>>

RECURSIVE BitAnd(_, _)
BitAnd(a, b) ==
    IF a = 0 \/ b = 0 THEN 0
    ELSE (a % 2) * (b % 2) + 2 * BitAnd(a \div 2, b \div 2)

\* Advancing with lookup_mask = lookups.size() - 1 instead of the comparison.
NextIndexMasked(idx, n) == IF n = 0 THEN 0 ELSE BitAnd(idx + 1, n - 1)

\* lookup_idx++; if (lookup_idx >= lookups.size()) lookup_idx = 0;
NextIndex(idx, n) == IF idx + 1 >= n THEN 0 ELSE idx + 1

\* The end of one iteration's body.
Advance ==
    /\ bench = "BM_RandomAccess"
    /\ pc = "ra_advance"
    /\ lookup_idx' = NextIndex(lookup_idx, Len(lookups))
    /\ iterations' = iterations + 1
    /\ pc' = "ra_loop"
    /\ UNCHANGED <<bench, size, data, pos>>
    /\ UNCHANGED genVars
    /\ UNCHANGED histVars
    /\ UNCHANGED <<map, lookups, key, found>>

\* The framework ends the loop (it runs at least one iteration);
\* state.SetComplexityN, state.SetItemsProcessed(state.iterations()).
AccessFinish ==
    /\ bench = "BM_RandomAccess"
    /\ pc = "ra_loop"
    /\ iterations >= 1
    /\ pc' = "finished"
    /\ UNCHANGED <<bench, size, data, pos, iterations>>
    /\ UNCHANGED genVars
    /\ UNCHANGED histVars
    /\ UNCHANGED raVars

----------------------------------------------------------------------------
Next ==
    \/ IotaBegin
    \/ AscendingStep
    \/ DescendingStep
    \/ IotaReturn
    \/ RandomBegin
    \/ RandomStep
    \/ RandomReturn
    \/ HistCopy
    \/ HistogramSortEntry
    \/ CountStep
    \/ ReconstructBegin
    \/ OuterEnter
    \/ InnerWrite
    \/ InnerExit
    \/ HistogramSortReturn
    \/ HistIterationEnd
    \/ HistFinish
    \/ InsertStep
    \/ CopyLookups
    \/ ShuffleStep
    \/ ShuffleDone
    \/ Find
    \/ FindOutOfRange
    \/ Advance
    \/ AccessFinish

Spec == Init /\ [][Next]_vars

----------------------------------------------------------------------------
\* Auxiliary operators of the properties

\* The number of positions of s holding v.
Count(s, v) == Cardinality({i \in DOMAIN s : s[i] = v})

\* The set of values held by s.
Values(s) == {s[i] : i \in DOMAIN s}

\* s and t hold the same values with the same multiplicities.
SameMultiset(s, t) == \A v \in Values(s) \cup Values(t) : Count(s, v) = Count(t, v)

\* The sum of the counts stored in a frequency map.
RECURSIVE SumCounts(_)
SumCounts(m) ==
    IF DOMAIN m = {} THEN 0
    ELSE LET k == CHOOSE x \in DOMAIN m : TRUE
         IN m[k] + SumCounts([x \in DOMAIN m \ {k} |-> m[x]])

\* Count(s, k) copies of k for each k of order, concatenated in that order.
RECURSIVE Runs(_, _)
Runs(order, s) ==
    IF order = <<>> THEN <<>>
    ELSE [i \in 1..Count(s, Head(order)) |-> Head(order)] \o Runs(Tail(order), s)

----------------------------------------------------------------------------
\* Properties

\* C1: whenever histogramSort returns, whatever iteration order the map
\* exposed, the returned sequence has the length of the input sequence and
\* holds the same values with the same multiplicities.
Thm_C1_Permutation ==
    pc = "hs_returned" =>
        /\ Len(ret) = Len(data)
        /\ SameMultiset(ret, data)

\* C1 witness: a call has returned a 3-element sequence with a repeated
\* value, positionally different from its input, after a descending
\* iteration order.
Wit_C1_Permutation ==
    /\ pc = "hs_returned"
    /\ Len(data) = 3
    /\ ret # data
    /\ Len(iterOrder) = 2
    /\ iterOrder[1] > iterOrder[2]

\* C2: during the counting loop the counts sum to the number of elements
\* consumed; once the whole input is consumed every key of the map occurs in
\* the input, its count is its number of occurrences, and the counts sum to
\* the input length.
Thm_C2_Counts ==
    pc = "hs_count" =>
        /\ SumCounts(sorted) = pos
        /\ pos = Len(copy) =>
              /\ \A k \in DOMAIN sorted :
                    /\ Count(copy, k) >= 1
                    /\ sorted[k] = Count(copy, k)
              /\ SumCounts(sorted) = Len(copy)

\* C2 witness: the counting loop has consumed a 3-element input that holds
\* one value twice and another once.
Wit_C2_Counts ==
    /\ pc = "hs_count"
    /\ pos = Len(copy)
    /\ Len(copy) = 3
    /\ \E a, b \in DOMAIN sorted : sorted[a] = 2 /\ sorted[b] = 1

\* C3: for N > 0 every lookup of the measured loop finds its key, and the key
\* is one of the keys inserted during setup.
Thm_C3_AlwaysHit ==
    (bench = "BM_RandomAccess" /\ size > 0 /\ pc = "ra_advance") =>
        /\ found
        /\ key \in Values(data)

\* C3 witness: with N = 3 the loop has run more than N iterations and the
\* lookup just made is a hit.
Wit_C3_AlwaysHit ==
    /\ bench = "BM_RandomAccess"
    /\ pc = "ra_advance"
    /\ size = 3
    /\ iterations > size
    /\ found

MeasuredLoop == {"ra_loop", "ra_advance"}

\* C4: when the setup of BM_RandomAccess is complete the lookup sequence has
\* the length and the multiset of keys of the sequence that populated the map,
\* and no step of the measured loop changes it.
Thm_C4_LookupsPermutation ==
    [][bench = "BM_RandomAccess" =>
          /\ pc' \in MeasuredLoop \cup {"finished"} =>
                /\ Len(lookups') = Len(data')
                /\ SameMultiset(lookups', data')
          /\ pc \in MeasuredLoop => lookups' = lookups /\ data' = data]_vars

\* C4 witness: a lookup was made from a 3-element lookup sequence that is
\* ordered differently from the populating sequence.
Wit_C4_LookupsPermutation ==
    /\ bench = "BM_RandomAccess"
    /\ pc = "ra_advance"
    /\ Len(lookups) = 3
    /\ lookups # data
    /\ SameMultiset(lookups, data)

\* GenerateRandomData has returned to the benchmark function.
RandomGenerated ==
    /\ bench \in {"BM_HistogramSort", "BM_RandomAccess"}
    /\ pc \notin {"start", "random"}

\* C5 as stated: both random generators return N integers of [0, N].
Cex_C5_RangeN ==
    RandomGenerated =>
        /\ Len(data) = size
        /\ \A i \in DOMAIN data : data[i] \in 0..size

\* C5 amended: both random generators return exactly N integers; those of the
\* histogram-sort generator lie in [0, N], those of the random-access
\* generator lie in [0, 2N].
Thm_C5_Range ==
    RandomGenerated =>
        /\ Len(data) = size
        /\ bench = "BM_HistogramSort" => \A i \in DOMAIN data : data[i] \in 0..size
        /\ bench = "BM_RandomAccess" => \A i \in DOMAIN data : data[i] \in 0..(2 * size)

\* C5 witness: the random-access generator has returned 3 integers, one of
\* them 2N.
Wit_C5_Range ==
    /\ RandomGenerated
    /\ bench = "BM_RandomAccess"
    /\ size = 3
    /\ Len(data) = 3
    /\ \E i \in DOMAIN data : data[i] = 2 * size

\* C6: GenerateAscendingData(N) returns N elements with element i equal to i
\* (the empty sequence for N = 0).
Thm_C6_Ascending ==
    (bench = "GenerateAscendingData" /\ pc = "returned") =>
        /\ Len(data) = size
        /\ \A i \in 0..(size - 1) : data[i + 1] = i
        /\ size = 0 => data = <<>>

\* C6 witness: GenerateAscendingData(3) has returned 0, 1, 2.
Wit_C6_Ascending ==
    /\ bench = "GenerateAscendingData"
    /\ pc = "returned"
    /\ size = 3
    /\ data = <<0, 1, 2>>

\* C7: GenerateDescendingData(N) returns N elements with element i equal to
\* N-1-i (the empty sequence for N = 0).
Thm_C7_Descending ==
    (bench = "GenerateDescendingData" /\ pc = "returned") =>
        /\ Len(data) = size
        /\ \A i \in 0..(size - 1) : data[i + 1] = size - 1 - i
        /\ size = 0 => data = <<>>

\* C7 witness: GenerateDescendingData(3) has returned 2, 1, 0.
Wit_C7_Descending ==
    /\ bench = "GenerateDescendingData"
    /\ pc = "returned"
    /\ size = 3
    /\ data = <<2, 1, 0>>

\* C8: for N > 0, before the k-th iteration (k = 0, 1, ...) the cursor is
\* k mod N, inside [0, N), and the key that iteration looks up is
\* lookups[k mod N].
Thm_C8_CircularScan ==
    (bench = "BM_RandomAccess" /\ size > 0 /\ pc \in MeasuredLoop) =>
        /\ lookup_idx \in 0..(Len(lookups) - 1)
        /\ lookup_idx = iterations % Len(lookups)
        /\ pc = "ra_advance" => key = lookups[(iterations % Len(lookups)) + 1]

\* C8 witness: with N = 3 (no power of two) the iteration k = 4 > N has
\* looked up lookups[1] after the cursor wrapped.
Wit_C8_CircularScan ==
    /\ bench = "BM_RandomAccess"
    /\ pc = "ra_advance"
    /\ size = 3
    /\ iterations = 4
    /\ lookup_idx = 1
    /\ key = lookups[2]

\* C9: once generated, the sequence of a histogram-sort trial is not changed
\* by any step, and the argument of every histogramSort call equals it.
Thm_C9_FreshCopy ==
    [][bench = "BM_HistogramSort" =>
          /\ pc \notin {"start", "random"} => data' = data
          /\ pc' = "hs_call" => copy' = data']_vars

\* C9 witness: a later iteration calls histogramSort on a sequence equal to the
\* generated one although the previous call left its argument in another order.
Wit_C9_FreshCopy ==
    /\ bench = "BM_HistogramSort"
    /\ pc = "hs_call"
    /\ iterations >= 2
    /\ Len(data) = 3
    /\ copy = data
    /\ ret # data

\* C10: the returned sequence is the concatenation, in the map's iteration
\* order, of one run per distinct key of the input, each run as long as the
\* key's number of occurrences in the input.
Thm_C10_Grouped ==
    pc = "hs_returned" =>
        /\ Values(iterOrder) = Values(data)
        /\ \A a, b \in DOMAIN iterOrder : a # b => iterOrder[a] # iterOrder[b]
        /\ ret = Runs(iterOrder, data)

\* C10 witness: a returned sequence made of a run of two followed by a run of
\* one, the first key being the larger one.
Wit_C10_Grouped ==
    /\ pc = "hs_returned"
    /\ Len(iterOrder) = 2
    /\ iterOrder[1] > iterOrder[2]
    /\ Count(ret, iterOrder[1]) = 2
    /\ ret = <<iterOrder[1], iterOrder[1], iterOrder[2]>>

\* A step of histogramSort that executes data[index++] = i->first.
ReconstructionWrite == pc = "hs_inner" /\ pc' = "hs_inner" /\ index' # index

\* C11: the reconstruction starts with index 0 only after the counting loop
\* has read the whole input; every write goes to position index, which lies
\* in [0, len), changes no other position and no length, and advances index
\* by exactly one; the argument changes in no other step of the function; and
\* index equals len when histogramSort returns.
Thm_C11_WriteIndex ==
    [][bench = "BM_HistogramSort" =>
          /\ (pc = "hs_count" /\ pc' = "hs_outer") => (pos = Len(copy) /\ index' = 0)
          /\ ReconstructionWrite =>
                /\ pos = Len(copy)
                /\ index \in 0..(Len(copy) - 1)
                /\ index' = index + 1
                /\ Len(copy') = Len(copy)
                /\ \A p \in DOMAIN copy : p # index + 1 => copy'[p] = copy[p]
          /\ (pc \in {"hs_call", "hs_count", "hs_outer", "hs_inner"} /\ copy' # copy)
                => ReconstructionWrite
          /\ (pc \in {"hs_outer", "hs_inner"} /\ ~ReconstructionWrite) => index' = index
          /\ pc' = "hs_returned" => index' = Len(copy')]_vars

\* C11 witness: a call on a 3-element input of three distinct keys is about to
\* make its last write, at index 2, in the third run of the reconstruction.
Wit_C11_WriteIndex ==
    /\ pc = "hs_inner"
    /\ Len(copy) = 3
    /\ Len(iterOrder) = 3
    /\ it = 2
    /\ j = 0
    /\ index = 2
    /\ pos = Len(copy)

====
